---- MODULE Spec2Model ----
(***************************************************************************)
(* Range cache (rangecache/rangecache.go) and duplicate-suppressing cache  *)
(* server (cacheserver.go) of zeneli/cacheserver.                          *)
(*                                                                         *)
(* A list is a sequence whose element 1 is the front (most recently used)  *)
(* and whose last element is the back.  A list element is identified by    *)
(* the keyrange of its item; the map rangecache is the set of its keys,    *)
(* the element a key maps to being the list element that carries the key.  *)
(* A payload is [typ, data, cap]: typ is the dynamic type of the           *)
(* interface{} value ("int" for []int, "byte" for []byte), data its        *)
(* elements and cap the capacity of the slice: its length for a value made *)
(* by generateValue, at least MinRead for a body read by ioutil.ReadAll.   *)
(* The elements of the backing array past the length are zero.             *)
(***************************************************************************)
EXTENDS Integers, Sequences, FiniteSets, TLC

\* ---------------------------------------------------------------- bounds
\* Distinct keyranges offered to the cache, calls made on the cache,
\* goroutines calling the server, distinct keyranges they request.
NKeys == 5
MaxOps == 4
NProcs == 3
NReqKeys == 3

\* ------------------------------------------------------ program constants
IntBytes == 64

\* The capacity ioutil.ReadAll gives the buffer it reads a body into; the
\* bodies modelled here are shorter.
MinRead == 512

\* ----------------------------------------------------------------- inputs
\* The ranges over the first three byte positions, in the order the bounds
\* admit them.
Keyrange(start, end) == [Start |-> start, End |-> end]

AllRanges ==
    <<Keyrange(0, 0), Keyrange(1, 1), Keyrange(0, 1),
      Keyrange(1, 2), Keyrange(2, 2), Keyrange(0, 2)>>

FirstRanges(n) == {AllRanges[i] : i \in {j \in 1..Len(AllRanges) : j <= n}}

Keys == FirstRanges(NKeys)

NoKey == [Start |-> -1, End |-> -1]

Types == {"int", "byte"}

Limits == {3, 192}

SrvLimits == {1, 2}

\* generateValue: the sequence start, start+1, ..., end, in a slice made
\* with that length.
generateValue(kr) == [i \in 1..(kr.End - kr.Start + 1) |-> kr.Start + i - 1]

\* The payloads offered to Add for a key: the elements of the range, as
\* []int or as []byte.
Payloads(kr) ==
    {[typ |-> t, data |-> generateValue(kr), cap |-> Len(generateValue(kr))] : t \in Types}

NoValue == [typ |-> "nil", data |-> <<>>, cap |-> 0]

\* ------------------------------------------------------------ range cache
NewRangeCache(byteLimit) ==
    [lrulist |-> <<>>, rangecache |-> {}, nbytesUsed |-> 0, nbyteLimit |-> byteLimit]

\* The list position of the element the map holds for keyrange.
Elem(rc, keyrange) == CHOOSE i \in 1..Len(rc.lrulist) : rc.lrulist[i].keyrange = keyrange

MoveToFront(l, i) == <<l[i]>> \o SubSeq(l, 1, i - 1) \o SubSeq(l, i + 1, Len(l))

PushFront(l, it) == <<it>> \o l

Back(l) == l[Len(l)]

RemoveBack(l) == SubSeq(l, 1, Len(l) - 1)

\* The type switch of Add: bytes required by (and later charged for) a value.
nbytesReq(value) ==
    CASE value.typ = "int" -> Len(value.data) * IntBytes
      [] value.typ = "byte" -> Len(value.data)
      [] OTHER -> 0

\* The type switch of evict: bytes credited for an evicted value.
bFreed(value) ==
    CASE value.typ = "int" -> Len(value.data) * IntBytes
      [] value.typ = "byte" -> Len(value.data) * IntBytes
      [] OTHER -> 0

nbytesAvailable(rc) == rc.nbyteLimit - rc.nbytesUsed

\* evict without delete(rc.rangecache, item.keyrange).
evictNoDelete(rc) ==
    IF Len(rc.lrulist) = 0
    THEN rc
    ELSE LET it == Back(rc.lrulist)
         IN  [rc EXCEPT !.lrulist = RemoveBack(@),
                        !.nbytesUsed = @ - bFreed(it.value)]

\* evict removing the front element instead of the back one.
evictFront(rc) ==
    IF Len(rc.lrulist) = 0
    THEN rc
    ELSE LET it == Head(rc.lrulist)
         IN  [rc EXCEPT !.lrulist = Tail(@),
                        !.rangecache = @ \ {it.keyrange},
                        !.nbytesUsed = @ - bFreed(it.value)]

evict(rc) ==
    IF Len(rc.lrulist) = 0
    THEN rc
    ELSE LET it == Back(rc.lrulist)
         IN  [rc EXCEPT !.lrulist = RemoveBack(@),
                        !.rangecache = @ \ {it.keyrange},
                        !.nbytesUsed = @ - bFreed(it.value)]

\* The eviction loop emptying the cache as soon as room is short.
evictLoopAll(rc, req) ==
    IF nbytesAvailable(rc) < req /\ Len(rc.lrulist) > 0
    THEN [rc EXCEPT !.lrulist = <<>>, !.rangecache = {}, !.nbytesUsed = 0]
    ELSE rc

\* The eviction loop of Add, run until its condition fails or, the list
\* being empty, evict can no longer change it (the loop then spins forever).
RECURSIVE evictLoop(_, _)
evictLoop(rc, req) ==
    IF nbytesAvailable(rc) < req /\ Len(rc.lrulist) > 0
    THEN evictLoop(evict(rc), req)
    ELSE rc

\* The keys the eviction loop removes, in the order it removes them.
RECURSIVE victims(_, _)
victims(rc, req) ==
    IF nbytesAvailable(rc) < req /\ Len(rc.lrulist) > 0
    THEN <<Back(rc.lrulist).keyrange>> \o victims(evict(rc), req)
    ELSE <<>>

\* Add does not return: the key is new and the loop empties the list
\* without making room.
AddHangs(rc, keyrange, value) ==
    /\ keyrange \notin rc.rangecache
    /\ nbytesAvailable(evictLoop(rc, nbytesReq(value))) < nbytesReq(value)

\* The cache hit branch of Add making room for the new value as the miss
\* branch does.
AddHitEvict(rc, keyrange, value) ==
    LET l == MoveToFront(rc.lrulist, Elem(rc, keyrange))
        r == [rc EXCEPT !.lrulist = <<[keyrange |-> keyrange, value |-> value]>> \o Tail(l)]
    IN  evictLoop(r, nbytesReq(value))

\* The cache hit branch of Add without the assignment of the new value.
AddHitKeep(rc, keyrange, value) ==
    [rc EXCEPT !.lrulist = MoveToFront(@, Elem(rc, keyrange))]

AddHit(rc, keyrange, value) ==
    LET l == MoveToFront(rc.lrulist, Elem(rc, keyrange))
    IN  [rc EXCEPT !.lrulist = <<[keyrange |-> keyrange, value |-> value]>> \o Tail(l)]

AddNew(rc, keyrange, value) ==
    LET r == evictLoop(rc, nbytesReq(value))
    IN  [r EXCEPT !.lrulist = PushFront(@, [keyrange |-> keyrange, value |-> value]),
                  !.rangecache = @ \cup {keyrange},
                  !.nbytesUsed = @ + nbytesReq(value)]

\* Add without the cache hit branch.
AddAlwaysNew(rc, keyrange, value) == AddNew(rc, keyrange, value)

\* The cache after Add returns (AddHangs tells when it does not).
Add(rc, keyrange, value) ==
    IF keyrange \in rc.rangecache
    THEN AddHit(rc, keyrange, value)
    ELSE AddNew(rc, keyrange, value)

BytesUsed(rc) == rc.nbytesUsed

\* ------------------------------------------------------------ liesInRange
\* The orders in which a range over a map of the keys S can visit them.
RECURSIVE Orders(_)
Orders(S) ==
    IF S = {} THEN {<<>>}
    ELSE UNION {{<<x>> \o o : o \in Orders(S \ {x})} : x \in S}

\* The start test against the wrong end of the requested range.
InStartsLoose(kr, keyrange) == kr.Start <= keyrange.End

InStarts(kr, keyrange) == kr.Start <= keyrange.Start

InEnds(kr, keyrange) == kr.End >= keyrange.End

\* The last key of the order that satisfies P: the assignment that survives
\* in a map written once per visited key.
LastWritten(order, G) ==
    order[CHOOSE i \in 1..Len(order) :
              /\ order[i] \in G
              /\ \A j \in (i + 1)..Len(order) : order[j] \notin G]

\* starts[kr.Start] = e for every visited kr with kr.Start <= keyrange.Start.
startsMap(rc, order, keyrange) ==
    LET Q == {kr \in rc.rangecache : InStarts(kr, keyrange)}
    IN  [s \in {kr.Start : kr \in Q} |-> LastWritten(order, {kr \in Q : kr.Start = s})]

\* ends[kr.End] = e for every visited kr with kr.End >= keyrange.End.
endsMap(rc, order, keyrange) ==
    LET Q == {kr \in rc.rangecache : InEnds(kr, keyrange)}
    IN  [t \in {kr.End : kr \in Q} |-> LastWritten(order, {kr \in Q : kr.End = t})]

\* Go's s[lo:hi] panics unless 0 <= lo <= hi <= cap(s).
SlicePanics(value, lo, hi) == lo < 0 \/ hi > value.cap \/ lo > hi

\* Go's s[lo:hi]: hi - lo elements of the backing array from position lo
\* on, those past len(s) being the zeros the array was made with, and the
\* capacity that is left behind lo.
Slice(value, lo, hi) ==
    [typ |-> value.typ,
     data |-> [i \in 1..(hi - lo) |->
                  IF lo + i <= Len(value.data) THEN value.data[lo + i] ELSE 0],
     cap |-> value.cap - lo]

\* What liesInRange does once it meets a pair start, end whose map entries
\* are the same element.
sliceOf(rc, start, end, keyrange) ==
    LET k == [Start |-> start, End |-> end]
        v == rc.lrulist[Elem(rc, k)].value
    IN  IF SlicePanics(v, keyrange.Start, keyrange.End + 1)
        THEN [e |-> NoKey, value |-> NoValue, ok |-> FALSE, panic |-> TRUE]
        ELSE [e |-> k, value |-> Slice(v, keyrange.Start, keyrange.End + 1),
              ok |-> TRUE, panic |-> FALSE]

\* The results liesInRange can produce, over the iteration orders of the
\* three maps it ranges over.
liesInRange(rc, keyrange) ==
    UNION {
        LET starts == startsMap(rc, order, keyrange)
            ends == endsMap(rc, order, keyrange)
            matches == {m \in (DOMAIN starts) \X (DOMAIN ends) : starts[m[1]] = ends[m[2]]}
        IN  IF matches = {}
            THEN {[e |-> NoKey, value |-> NoValue, ok |-> FALSE, panic |-> FALSE]}
            ELSE {sliceOf(rc, m[1], m[2], keyrange) : m \in matches}
        : order \in Orders(rc.rangecache)}

\* Get taking the entry out of the cache on a fast hit.
GetConsume(rc, keyrange) ==
    IF keyrange \in rc.rangecache
    THEN LET i == Elem(rc, keyrange)
         IN  {[rc |-> [rc EXCEPT !.lrulist = SubSeq(@, 1, i - 1) \o SubSeq(@, i + 1, Len(@)),
                                 !.rangecache = @ \ {keyrange},
                                 !.nbytesUsed = @ - nbytesReq(rc.lrulist[i].value)],
               value |-> rc.lrulist[i].value,
               ok |-> TRUE, panic |-> FALSE, e |-> keyrange]}
    ELSE {IF r.ok
          THEN [rc |-> [rc EXCEPT !.lrulist = MoveToFront(@, Elem(rc, r.e))],
                value |-> r.value, ok |-> TRUE, panic |-> FALSE, e |-> r.e]
          ELSE [rc |-> rc, value |-> NoValue, ok |-> FALSE, panic |-> r.panic, e |-> NoKey]
          : r \in liesInRange(rc, keyrange)}

\* Get without MoveToFront on the slow hit.
GetNoBump(rc, keyrange) ==
    IF keyrange \in rc.rangecache
    THEN {[rc |-> [rc EXCEPT !.lrulist = MoveToFront(@, Elem(rc, keyrange))],
           value |-> rc.lrulist[Elem(rc, keyrange)].value,
           ok |-> TRUE, panic |-> FALSE, e |-> keyrange]}
    ELSE {IF r.ok
          THEN [rc |-> rc, value |-> r.value, ok |-> TRUE, panic |-> FALSE, e |-> r.e]
          ELSE [rc |-> rc, value |-> NoValue, ok |-> FALSE, panic |-> r.panic, e |-> NoKey]
          : r \in liesInRange(rc, keyrange)}

\* The outcomes of Get: the cache afterwards, the value, ok, whether the
\* call panicked, and the key of the element that served the request.
Get(rc, keyrange) ==
    IF keyrange \in rc.rangecache
    THEN {[rc |-> [rc EXCEPT !.lrulist = MoveToFront(@, Elem(rc, keyrange))],
           value |-> rc.lrulist[Elem(rc, keyrange)].value,
           ok |-> TRUE, panic |-> FALSE, e |-> keyrange]}
    ELSE {IF r.ok
          THEN [rc |-> [rc EXCEPT !.lrulist = MoveToFront(@, Elem(rc, r.e))],
                value |-> r.value, ok |-> TRUE, panic |-> FALSE, e |-> r.e]
          ELSE [rc |-> rc, value |-> NoValue, ok |-> FALSE, panic |-> r.panic, e |-> NoKey]
          : r \in liesInRange(rc, keyrange)}

\* ------------------------------------------------------------- variables
\* cache: the RangeCache.  last, prev, nops: the latest two calls made on
\* the cache directly, and how many were made.  mu: the holder of cs.mu.
\* dup: the entry of each keyrange in cs.dup and the state of its ready
\* channel.  pc, key, body, ret, role: each goroutine's position in
\* GetRangeDupSup or GetRange, its keyrange, the fetched body, its return
\* values and the branch it took ("direct" for GetRange).  fetches: calls
\* of httpGetRangeRequest per keyrange.
VARIABLES cache, last, prev, nops, mu, dup, pc, key, body, ret, role, fetches

storeVars == <<cache, last, prev, nops>>

srvVars == <<mu, dup, pc, key, body, ret, role, fetches>>

vars == <<cache, last, prev, nops, mu, dup, pc, key, body, ret, role, fetches>>

Procs == 1..NProcs

Unlocked == {}

ReqKeys == FirstRanges(NReqKeys)

NoRet == [value |-> NoValue, ok |-> FALSE]

NoOp == [op |-> "none", key |-> NoKey, value |-> NoValue, res |-> "none",
         served |-> NoKey, evicted |-> <<>>]

NewCacheServer ==
    /\ mu = Unlocked
    /\ dup = [kr \in ReqKeys |-> "absent"]
    /\ pc = [p \in Procs |-> "idle"]
    /\ key = [p \in Procs |-> NoKey]
    /\ body = [p \in Procs |-> NoValue]
    /\ ret = [p \in Procs |-> NoRet]
    /\ role = [p \in Procs |-> "none"]
    /\ fetches = [kr \in ReqKeys |-> 0]

\* ------------------------------------------------- range cache, sequential
Running == nops < MaxOps /\ last.res \notin {"hang", "panic"}

InitStore ==
    /\ cache \in {NewRangeCache(n) : n \in Limits}
    /\ last = NoOp
    /\ prev = NoOp
    /\ nops = 0
    /\ NewCacheServer

DoAdd(keyrange, value) ==
    /\ Running
    /\ nops' = nops + 1
    /\ prev' = last
    /\ IF AddHangs(cache, keyrange, value)
       THEN /\ cache' = evictLoop(cache, nbytesReq(value))
            /\ last' = [op |-> "Add", key |-> keyrange, value |-> value, res |-> "hang",
                        served |-> NoKey, evicted |-> victims(cache, nbytesReq(value))]
       ELSE /\ cache' = Add(cache, keyrange, value)
            /\ last' = [op |-> "Add", key |-> keyrange, value |-> value,
                        res |-> IF keyrange \in cache.rangecache THEN "update" ELSE "new",
                        served |-> NoKey,
                        evicted |-> IF keyrange \in cache.rangecache THEN <<>>
                                    ELSE victims(cache, nbytesReq(value))]
    /\ UNCHANGED srvVars

DoGet(keyrange) ==
    /\ Running
    /\ nops' = nops + 1
    /\ prev' = last
    /\ \E o \in Get(cache, keyrange) :
          /\ cache' = o.rc
          /\ last' = [op |-> "Get", key |-> keyrange, value |-> o.value,
                      res |-> IF o.panic THEN "panic" ELSE IF o.ok THEN "hit" ELSE "miss",
                      served |-> o.e, evicted |-> <<>>]
    /\ UNCHANGED srvVars

NextStore ==
    \/ \E keyrange \in Keys : \E value \in Payloads(keyrange) : DoAdd(keyrange, value)
    \/ \E keyrange \in Keys : DoGet(keyrange)

SpecStore == InitStore /\ [][NextStore]_vars

\* ----------------------------------------------------------- cache server
\* The origin: a resource of ContentLength bytes, byte i holding i % 256,
\* that serves byte ranges.
ContentLength == 1000000

\* The body httpGetRangeRequest returns for a keyrange: the bytes of the
\* range that the resource has, fewer than the range asks for when it ends
\* past the resource (neither the status nor the length of the reply is
\* looked at), in the buffer ioutil.ReadAll read them into.
httpBody(keyrange) ==
    LET end == IF keyrange.End < ContentLength THEN keyrange.End ELSE ContentLength - 1
        n == end - keyrange.Start + 1
    IN  [typ |-> "byte",
         data |-> [i \in 1..n |-> (keyrange.Start + i - 1) % 256],
         cap |-> IF n > MinRead THEN n ELSE MinRead]

Init ==
    /\ cache \in {NewRangeCache(n) : n \in SrvLimits}
    /\ last = NoOp
    /\ prev = NoOp
    /\ nops = 0
    /\ NewCacheServer

\* A goroutine calls GetRangeDupSup(url, keyrange) and its cs.mu.Lock()
\* returns; goroutines are numbered in the order in which this happens.
Call(p, keyrange) ==
    /\ pc[p] = "idle"
    /\ \A q \in Procs : q < p => pc[q] # "idle"
    /\ mu = Unlocked
    /\ mu' = {p}
    /\ key' = [key EXCEPT ![p] = keyrange]
    /\ pc' = [pc EXCEPT ![p] = "Check"]
    /\ UNCHANGED <<storeVars, dup, body, ret, role, fetches>>

\* The first request not recorded in cs.dup.
RegisterLost(d, keyrange) == d

\* The entry for a keyrange that has none: the map after cs.dup[keyrange] = e.
Register(d, keyrange) == [d EXCEPT ![keyrange] = "open"]

\* CheckDup keeping cs.mu locked when it goes on to wait.
CheckDupHoldWait(p) ==
    /\ pc[p] = "Check"
    /\ mu = {p}
    /\ IF dup[key[p]] = "absent"
       THEN /\ dup' = Register(dup, key[p])
            /\ role' = [role EXCEPT ![p] = "fetcher"]
            /\ pc' = [pc EXCEPT ![p] = "Fetch"]
            /\ mu' = Unlocked
       ELSE /\ dup' = dup
            /\ role' = [role EXCEPT ![p] = "waiter"]
            /\ pc' = [pc EXCEPT ![p] = "Wait"]
            /\ mu' = mu
    /\ UNCHANGED <<storeVars, key, body, ret, fetches>>

\* CheckDup keeping cs.mu locked when it goes on to fetch.
CheckDupHold(p) ==
    /\ pc[p] = "Check"
    /\ mu = {p}
    /\ IF dup[key[p]] = "absent"
       THEN /\ dup' = Register(dup, key[p])
            /\ role' = [role EXCEPT ![p] = "fetcher"]
            /\ pc' = [pc EXCEPT ![p] = "Fetch"]
            /\ mu' = mu
       ELSE /\ dup' = dup
            /\ role' = [role EXCEPT ![p] = "waiter"]
            /\ pc' = [pc EXCEPT ![p] = "Wait"]
            /\ mu' = Unlocked
    /\ UNCHANGED <<storeVars, key, body, ret, fetches>>

\* e := cs.dup[keyrange]; register an entry or not; cs.mu.Unlock().
CheckDup(p) ==
    /\ pc[p] = "Check"
    /\ mu = {p}
    /\ IF dup[key[p]] = "absent"
       THEN /\ dup' = Register(dup, key[p])
            /\ role' = [role EXCEPT ![p] = "fetcher"]
            /\ pc' = [pc EXCEPT ![p] = "Fetch"]
       ELSE /\ dup' = dup
            /\ role' = [role EXCEPT ![p] = "waiter"]
            /\ pc' = [pc EXCEPT ![p] = "Wait"]
    /\ mu' = Unlocked
    /\ UNCHANGED <<storeVars, key, body, ret, fetches>>

\* The fetcher closing e.ready as soon as the body arrives, before cs.add.
FetchOkCloseFirst(p) ==
    /\ pc[p] = "Fetch"
    /\ fetches' = [fetches EXCEPT ![key[p]] = @ + 1]
    /\ body' = [body EXCEPT ![p] = httpBody(key[p])]
    /\ dup' = [dup EXCEPT ![key[p]] = "closed"]
    /\ pc' = [pc EXCEPT ![p] = "AddLock"]
    /\ UNCHANGED <<storeVars, mu, key, ret, role>>

\* httpGetRangeRequest returns body, nil.
FetchOk(p) ==
    /\ pc[p] = "Fetch"
    /\ fetches' = [fetches EXCEPT ![key[p]] = @ + 1]
    /\ body' = [body EXCEPT ![p] = httpBody(key[p])]
    /\ pc' = [pc EXCEPT ![p] = "AddLock"]
    /\ UNCHANGED <<storeVars, mu, dup, key, ret, role>>

\* httpGetRangeRequest returns nil, err: GetRangeDupSup returns nil, false.
FetchErr(p) ==
    /\ pc[p] = "Fetch"
    /\ fetches' = [fetches EXCEPT ![key[p]] = @ + 1]
    /\ ret' = [ret EXCEPT ![p] = NoRet]
    /\ pc' = [pc EXCEPT ![p] = "done"]
    /\ UNCHANGED <<storeVars, mu, dup, key, body, role>>

\* client.Do fails: resp is nil and the deferred resp.Body.Close() panics.
FetchPanic(p) ==
    /\ pc[p] = "Fetch"
    /\ fetches' = [fetches EXCEPT ![key[p]] = @ + 1]
    /\ pc' = [pc EXCEPT ![p] = "panicked"]
    /\ UNCHANGED <<storeVars, mu, dup, key, body, ret, role>>

\* cs.mu.Lock() in cs.add.
LockAdd(p) ==
    /\ pc[p] = "AddLock"
    /\ mu = Unlocked
    /\ mu' = {p}
    /\ pc' = [pc EXCEPT ![p] = "Add"]
    /\ UNCHANGED <<storeVars, dup, key, body, ret, role, fetches>>

\* cs.cache.Add(keyrange, body) and the deferred cs.mu.Unlock(); when Add
\* does not return the lock stays held.
CsAdd(p) ==
    /\ pc[p] = "Add"
    /\ mu = {p}
    /\ IF AddHangs(cache, key[p], body[p])
       THEN /\ cache' = evictLoop(cache, nbytesReq(body[p]))
            /\ pc' = [pc EXCEPT ![p] = "hung"]
            /\ mu' = mu
       ELSE /\ cache' = Add(cache, key[p], body[p])
            /\ pc' = [pc EXCEPT ![p] = "Close"]
            /\ mu' = Unlocked
    /\ UNCHANGED <<last, prev, nops, dup, key, body, ret, role, fetches>>

\* The fetcher deleting its entry from cs.dup once it has closed e.ready.
CloseAndRemove(p) ==
    /\ pc[p] = "Close"
    /\ dup' = [dup EXCEPT ![key[p]] = "absent"]
    /\ pc' = [pc EXCEPT ![p] = "GetLock"]
    /\ UNCHANGED <<storeVars, mu, key, body, ret, role, fetches>>

\* close(e.ready); closing a closed channel panics.
Close(p) ==
    /\ pc[p] = "Close"
    /\ IF dup[key[p]] = "closed"
       THEN /\ pc' = [pc EXCEPT ![p] = "panicked"]
            /\ dup' = dup
       ELSE /\ dup' = [dup EXCEPT ![key[p]] = "closed"]
            /\ pc' = [pc EXCEPT ![p] = "GetLock"]
    /\ UNCHANGED <<storeVars, mu, key, body, ret, role, fetches>>

\* The repeated request going on without receiving from e.ready.
WaitNoBlock(p) ==
    /\ pc[p] = "Wait"
    /\ pc' = [pc EXCEPT ![p] = "GetLock"]
    /\ UNCHANGED <<storeVars, mu, dup, key, body, ret, role, fetches>>

\* The repeated request closing e.ready too once it has received from it.
WaitThenClose(p) ==
    /\ pc[p] = "Wait"
    /\ dup[key[p]] = "closed"
    /\ pc' = [pc EXCEPT ![p] = "Close"]
    /\ UNCHANGED <<storeVars, mu, dup, key, body, ret, role, fetches>>

\* <-e.ready returns once the channel is closed.
Wait(p) ==
    /\ pc[p] = "Wait"
    /\ dup[key[p]] = "closed"
    /\ pc' = [pc EXCEPT ![p] = "GetLock"]
    /\ UNCHANGED <<storeVars, mu, dup, key, body, ret, role, fetches>>

\* cs.get going on to the cache without taking cs.mu.
LockGetSkip(p) ==
    /\ pc[p] = "GetLock"
    /\ mu' = mu
    /\ pc' = [pc EXCEPT ![p] = "Get"]
    /\ UNCHANGED <<storeVars, dup, key, body, ret, role, fetches>>

\* cs.mu.Lock() in cs.get.
LockGet(p) ==
    /\ pc[p] = "GetLock"
    /\ mu = Unlocked
    /\ mu' = {p}
    /\ pc' = [pc EXCEPT ![p] = "Get"]
    /\ UNCHANGED <<storeVars, dup, key, body, ret, role, fetches>>

\* cs.cache.Get(keyrange), the deferred cs.mu.Unlock(), and the return of
\* GetRangeDupSup.
CsGet(p) ==
    /\ pc[p] = "Get"
    /\ mu = {p}
    /\ \E o \in Get(cache, key[p]) :
          /\ cache' = o.rc
          /\ IF o.panic
             THEN /\ pc' = [pc EXCEPT ![p] = "panicked"]
                  /\ ret' = ret
             ELSE /\ pc' = [pc EXCEPT ![p] = "done"]
                  /\ ret' = [ret EXCEPT ![p] = IF o.ok THEN [value |-> o.value, ok |-> TRUE]
                                                ELSE NoRet]
    /\ mu' = Unlocked
    /\ UNCHANGED <<last, prev, nops, dup, key, body, role, fetches>>

\* The steps goroutine p can take inside GetRangeDupSup.
GetRangeDupSupStep(p) ==
    \/ \E keyrange \in ReqKeys : Call(p, keyrange)
    \/ CheckDup(p)
    \/ FetchOk(p)
    \/ FetchErr(p)
    \/ FetchPanic(p)
    \/ LockAdd(p)
    \/ CsAdd(p)
    \/ Close(p)
    \/ Wait(p)
    \/ LockGet(p)
    \/ CsGet(p)

Next ==
    \/ \E p \in Procs : \E keyrange \in ReqKeys : Call(p, keyrange)
    \/ \E p \in Procs : CheckDup(p)
    \/ \E p \in Procs : FetchOk(p)
    \/ \E p \in Procs : FetchErr(p)
    \/ \E p \in Procs : FetchPanic(p)
    \/ \E p \in Procs : LockAdd(p)
    \/ \E p \in Procs : CsAdd(p)
    \/ \E p \in Procs : Close(p)
    \/ \E p \in Procs : Wait(p)
    \/ \E p \in Procs : LockGet(p)
    \/ \E p \in Procs : CsGet(p)

Spec == Init /\ [][Next]_vars

\* ------------------------------------------------- cache server, GetRange
\* A goroutine calls GetRange(url, keyrange) and the cs.mu.Lock() of its
\* cs.get returns; it shares the numbering of Call.
RangeCall(p, keyrange) ==
    /\ pc[p] = "idle"
    /\ \A q \in Procs : q < p => pc[q] # "idle"
    /\ mu = Unlocked
    /\ mu' = {p}
    /\ key' = [key EXCEPT ![p] = keyrange]
    /\ role' = [role EXCEPT ![p] = "direct"]
    /\ pc' = [pc EXCEPT ![p] = "RangeGet"]
    /\ UNCHANGED <<storeVars, dup, body, ret, fetches>>

\* v, ok := cs.get(keyrange): a hit returns v, nil; a miss goes on to fetch.
RangeGet(p) ==
    /\ pc[p] = "RangeGet"
    /\ mu = {p}
    /\ \E o \in Get(cache, key[p]) :
          /\ cache' = o.rc
          /\ IF o.panic
             THEN /\ pc' = [pc EXCEPT ![p] = "panicked"]
                  /\ ret' = ret
             ELSE IF o.ok
             THEN /\ pc' = [pc EXCEPT ![p] = "done"]
                  /\ ret' = [ret EXCEPT ![p] = [value |-> o.value, ok |-> TRUE]]
             ELSE /\ pc' = [pc EXCEPT ![p] = "RangeFetch"]
                  /\ ret' = ret
    /\ mu' = Unlocked
    /\ UNCHANGED <<last, prev, nops, dup, key, body, role, fetches>>

\* httpGetRangeRequest returns body, nil.
RangeFetchOk(p) ==
    /\ pc[p] = "RangeFetch"
    /\ fetches' = [fetches EXCEPT ![key[p]] = @ + 1]
    /\ body' = [body EXCEPT ![p] = httpBody(key[p])]
    /\ pc' = [pc EXCEPT ![p] = "RangeAddLock"]
    /\ UNCHANGED <<storeVars, mu, dup, key, ret, role>>

\* httpGetRangeRequest returns nil, err: GetRange returns nil, err.
RangeFetchErr(p) ==
    /\ pc[p] = "RangeFetch"
    /\ fetches' = [fetches EXCEPT ![key[p]] = @ + 1]
    /\ ret' = [ret EXCEPT ![p] = NoRet]
    /\ pc' = [pc EXCEPT ![p] = "done"]
    /\ UNCHANGED <<storeVars, mu, dup, key, body, role>>

\* client.Do fails: resp is nil and the deferred resp.Body.Close() panics.
RangeFetchPanic(p) ==
    /\ pc[p] = "RangeFetch"
    /\ fetches' = [fetches EXCEPT ![key[p]] = @ + 1]
    /\ pc' = [pc EXCEPT ![p] = "panicked"]
    /\ UNCHANGED <<storeVars, mu, dup, key, body, ret, role>>

\* cs.mu.Lock() in the cs.add of GetRange.
RangeLockAdd(p) ==
    /\ pc[p] = "RangeAddLock"
    /\ mu = Unlocked
    /\ mu' = {p}
    /\ pc' = [pc EXCEPT ![p] = "RangeAdd"]
    /\ UNCHANGED <<storeVars, dup, key, body, ret, role, fetches>>

\* cs.cache.Add(keyrange, body), the deferred cs.mu.Unlock(), and the return
\* of body, nil; when Add does not return the lock stays held.
RangeAdd(p) ==
    /\ pc[p] = "RangeAdd"
    /\ mu = {p}
    /\ IF AddHangs(cache, key[p], body[p])
       THEN /\ cache' = evictLoop(cache, nbytesReq(body[p]))
            /\ pc' = [pc EXCEPT ![p] = "hung"]
            /\ mu' = mu
            /\ ret' = ret
       ELSE /\ cache' = Add(cache, key[p], body[p])
            /\ pc' = [pc EXCEPT ![p] = "done"]
            /\ mu' = Unlocked
            /\ ret' = [ret EXCEPT ![p] = [value |-> body[p], ok |-> TRUE]]
    /\ UNCHANGED <<last, prev, nops, dup, key, body, role, fetches>>

\* Goroutines calling GetRange and GetRangeDupSup on one server.
NextRange ==
    \/ Next
    \/ \E p \in Procs : \E keyrange \in ReqKeys : RangeCall(p, keyrange)
    \/ \E p \in Procs : RangeGet(p)
    \/ \E p \in Procs : RangeFetchOk(p)
    \/ \E p \in Procs : RangeFetchErr(p)
    \/ \E p \in Procs : RangeFetchPanic(p)
    \/ \E p \in Procs : RangeLockAdd(p)
    \/ \E p \in Procs : RangeAdd(p)

SpecRange == Init /\ [][NextRange]_vars

\* Goroutines calling GetRange only, as testConcurrentReal does.
NextDirect ==
    \/ \E p \in Procs : \E keyrange \in ReqKeys : RangeCall(p, keyrange)
    \/ \E p \in Procs : RangeGet(p)
    \/ \E p \in Procs : RangeFetchOk(p)
    \/ \E p \in Procs : RangeFetchErr(p)
    \/ \E p \in Procs : RangeFetchPanic(p)
    \/ \E p \in Procs : RangeLockAdd(p)
    \/ \E p \in Procs : RangeAdd(p)

SpecDirect == Init /\ [][NextDirect]_vars

\* ------------------------------------------- cache server, one goroutine
\* The goroutine of a test that makes its calls one after the other.
First == CHOOSE p \in Procs : \A q \in Procs : p <= q

InitSequential ==
    /\ cache \in {NewRangeCache(n) : n \in Limits}
    /\ last = NoOp
    /\ prev = NoOp
    /\ nops = 0
    /\ mu = Unlocked
    /\ dup = [kr \in Keys |-> "absent"]
    /\ pc = [p \in Procs |-> "idle"]
    /\ key = [p \in Procs |-> NoKey]
    /\ body = [p \in Procs |-> NoValue]
    /\ ret = [p \in Procs |-> NoRet]
    /\ role = [p \in Procs |-> "none"]
    /\ fetches = [kr \in Keys |-> 0]

\* The loop of testSequentialReal: GetRange has returned, with a body or
\* with an error, and the next keyrange is received; nops counts the calls
\* that returned.
NextRequest(p) ==
    /\ pc[p] = "done"
    /\ nops + 1 < MaxOps
    /\ nops' = nops + 1
    /\ pc' = [pc EXCEPT ![p] = "idle"]
    /\ key' = [key EXCEPT ![p] = NoKey]
    /\ body' = [body EXCEPT ![p] = NoValue]
    /\ ret' = [ret EXCEPT ![p] = NoRet]
    /\ role' = [role EXCEPT ![p] = "none"]
    /\ UNCHANGED <<cache, last, prev, mu, dup, fetches>>

\* One goroutine calling GetRange(url, keyrange) again and again, as
\* testSequentialReal does.
NextSequential ==
    \/ \E keyrange \in Keys : RangeCall(First, keyrange)
    \/ RangeGet(First)
    \/ RangeFetchOk(First)
    \/ RangeFetchErr(First)
    \/ RangeFetchPanic(First)
    \/ RangeLockAdd(First)
    \/ RangeAdd(First)
    \/ NextRequest(First)

SpecSequential == InitSequential /\ [][NextSequential]_vars

\* ------------------------------- cache server, fetches that all succeed
\* The last byte of the resource, and its last two bytes asked for with the
\* end that ServeHTTP clamps a larger one to (end = contentLength).
EndRanges ==
    {Keyrange(ContentLength - 2, ContentLength),
     Keyrange(ContentLength - 1, ContentLength - 1)}

LiveKeys == ReqKeys \cup EndRanges

\* A server whose byte limit no body exceeds, called on either path with
\* keyranges at the start and at the end of the resource, every upstream
\* fetch returning its body.
InitLive ==
    /\ cache \in {NewRangeCache(n) : n \in Limits}
    /\ last = NoOp
    /\ prev = NoOp
    /\ nops = 0
    /\ mu = Unlocked
    /\ dup = [kr \in LiveKeys |-> "absent"]
    /\ pc = [p \in Procs |-> "idle"]
    /\ key = [p \in Procs |-> NoKey]
    /\ body = [p \in Procs |-> NoValue]
    /\ ret = [p \in Procs |-> NoRet]
    /\ role = [p \in Procs |-> "none"]
    /\ fetches = [kr \in LiveKeys |-> 0]

\* The steps of goroutine p when its fetch succeeds.
LiveStep(p) ==
    \/ \E keyrange \in LiveKeys : Call(p, keyrange)
    \/ \E keyrange \in LiveKeys : RangeCall(p, keyrange)
    \/ CheckDup(p)
    \/ FetchOk(p)
    \/ LockAdd(p)
    \/ CsAdd(p)
    \/ Close(p)
    \/ Wait(p)
    \/ LockGet(p)
    \/ CsGet(p)
    \/ RangeGet(p)
    \/ RangeFetchOk(p)
    \/ RangeLockAdd(p)
    \/ RangeAdd(p)

NextLive == \E p \in Procs : LiveStep(p)

\* The scheduler runs every goroutine that can run, and sync.Mutex hands
\* the lock to every goroutine that keeps asking for it.
SpecLive == InitLive /\ [][NextLive]_vars /\ \A p \in Procs : SF_vars(LiveStep(p))

\* ================================================================= claims
\* a contains b: the interval of b lies inside that of a.
Contains(a, b) == a.Start <= b.Start /\ a.End >= b.End

\* a and b share at least one position.
Overlaps(a, b) == a.Start <= b.End /\ b.Start <= a.End

KeysOf(l) == [i \in 1..Len(l) |-> l[i].keyrange]

RECURSIVE SumBytes(_)
SumBytes(l) == IF l = <<>> THEN 0 ELSE nbytesReq(Head(l).value) + SumBytes(Tail(l))

Returned(p) == pc[p] = "done"

\* The callers of GetRangeDupSup(kr) that are past the fetch or the wait.
PastFetch(p) == pc[p] \in {"AddLock", "Add", "Close", "GetLock", "Get", "done", "hung", "panicked"}

\* C1: on the deduplicated path the upstream fetch is invoked at most once
\* per keyrange and exactly once as soon as any caller for the keyrange is
\* past its fetch or wait; at most one caller is the fetcher of a keyrange.
C1_SingleFetch ==
    \A kr \in ReqKeys :
        /\ fetches[kr] <= 1
        /\ Cardinality({p \in Procs : key[p] = kr /\ role[p] = "fetcher"}) <= 1
        /\ \A p \in Procs : key[p] = kr /\ role[p] # "none" /\ PastFetch(p) => fetches[kr] = 1

C1_Witness ==
    \E kr \in ReqKeys :
        /\ \A p \in Procs : key[p] = kr /\ Returned(p)
        /\ Cardinality({p \in Procs : role[p] = "waiter"}) = NProcs - 1
        /\ fetches[kr] = 1

\* C2: when every call targets the same keyrange and the fetch for it
\* succeeded, every call that has returned returned ok with the body that
\* fetch returned, and no call panicked.
C2_SamePayload ==
    \A kr \in ReqKeys : \A f \in Procs :
        (/\ \A p \in Procs : key[p] \in {kr, NoKey}
         /\ key[f] = kr /\ role[f] = "fetcher" /\ body[f] # NoValue)
        => \A p \in Procs :
              /\ pc[p] # "panicked"
              /\ Returned(p) => ret[p] = [value |-> body[f], ok |-> TRUE]

C2_Witness ==
    \E kr \in ReqKeys :
        /\ \A p \in Procs : key[p] = kr /\ Returned(p)
                            /\ ret[p] = [value |-> httpBody(kr), ok |-> TRUE]
        /\ \E f \in Procs : role[f] = "fetcher" /\ body[f] = httpBody(kr)

\* C3: a fetcher that has returned has fired the completion signal of its
\* marker, whether its fetch succeeded or failed.
C3_SignalOnFailure ==
    \A p \in Procs : role[p] = "fetcher" /\ Returned(p) => dup[key[p]] = "closed"

\* C4: Add(k, p) immediately followed by Get(k) returns (p, true).
C4_RoundTrip ==
    (prev.op = "Add" /\ last.op = "Get" /\ last.key = prev.key)
    => (last.res = "hit" /\ last.value = prev.value)

C4_Witness ==
    /\ nops = 3
    /\ prev.op = "Add" /\ prev.res = "update"
    /\ BytesUsed(cache) # nbytesReq(prev.value)
    /\ last.op = "Get" /\ last.key = prev.key
    /\ last.res = "hit" /\ last.value = prev.value
    /\ Len(cache.lrulist) = 1

\* C5: a Get whose key has no exact match but lies inside the range of at
\* least one live entry returns found = true.
C5_ContainmentComplete ==
    (/\ last.op = "Get"
     /\ last.key \notin cache.rangecache
     /\ \E kr \in cache.rangecache : Contains(kr, last.key))
    => last.res = "hit"

\* C6: on a containment hit Get returns the sub-slice of the serving
\* entry's payload at offsets key.start - e.start .. key.end - e.start.
C6_RelativeSlice ==
    (last.op = "Get" /\ last.res = "hit" /\ last.served # last.key)
    => LET v == cache.lrulist[Elem(cache, last.served)].value
       IN  last.value.data = SubSeq(v.data, last.key.Start - last.served.Start + 1,
                                    last.key.End - last.served.Start + 1)

\* C7: Get returns found = true only if a live entry's range equals or
\* contains the key (a request that a cached range only overlaps misses).
C7_GetSound ==
    (last.op = "Get" /\ last.res = "hit")
    => /\ last.served \in cache.rangecache
       /\ Contains(last.served, last.key)

C7_Witness ==
    /\ prev.op = "Get" /\ prev.res = "miss"
    /\ \E kr \in cache.rangecache : Overlaps(kr, prev.key)
    /\ last.op = "Get" /\ last.res = "hit" /\ last.served # last.key

\* C8: after every completed operation the payload sizes of the live
\* entries sum to at most the byte limit.
C8_ByteBudget == SumBytes(cache.lrulist) <= cache.nbyteLimit

\* C9: an Add of a new key removes entries only from the least recently
\* used end: the survivors are the most recently used entries, in their
\* order, behind the new entry; two entries added after A with room for two
\* of the three leave A evicted and the other two retrievable.
C9_StepLRU ==
    (nops' = nops + 1 /\ last'.op = "Add" /\ last'.res \in {"new", "hang"})
    => \E n \in 0..Len(cache.lrulist) :
          LET kept == SubSeq(cache.lrulist, 1, Len(cache.lrulist) - n)
          IN  /\ cache'.lrulist = IF last'.res = "new"
                                  THEN <<[keyrange |-> last'.key, value |-> last'.value]>> \o kept
                                  ELSE kept
              /\ cache'.rangecache \ {last'.key} = {kept[i].keyrange : i \in 1..Len(kept)}

C9_ThreeAdds ==
    (/\ prev.op = "Add" /\ prev.res = "new" /\ prev.evicted = <<>>
     /\ last.op = "Add" /\ last.res = "new" /\ Len(last.evicted) = 1
     /\ Len(cache.lrulist) = 2)
    => /\ KeysOf(cache.lrulist) = <<last.key, prev.key>>
       /\ last.evicted[1] \notin cache.rangecache
       /\ \A kr \in {last.key, prev.key} : \A o \in Get(cache, kr) : o.ok

C9_EvictsLRU == [][C9_StepLRU]_vars /\ []C9_ThreeAdds

C9_Witness ==
    /\ prev.op = "Add" /\ prev.res = "new" /\ prev.evicted = <<>>
    /\ last.op = "Add" /\ last.res = "new" /\ Len(last.evicted) = 1
    /\ KeysOf(cache.lrulist) = <<last.key, prev.key>>
    /\ \A o \in Get(cache, last.evicted[1]) : ~o.ok
    /\ \A kr \in {last.key, prev.key} : \A o \in Get(cache, kr) : o.ok

\* C10: a Get hit moves the entry that served it (the matched entry on an
\* exact hit, a containing entry otherwise) to the most recently used end
\* and leaves the order of the others alone, so a following Add evicts it
\* only after every other entry.
C10_StepBump ==
    (nops' = nops + 1 /\ last'.op = "Get" /\ last'.res = "hit")
    => /\ last'.served \in cache.rangecache
       /\ last'.key \in cache.rangecache => last'.served = last'.key
       /\ Contains(last'.served, last'.key)
       /\ Head(cache'.lrulist) = cache.lrulist[Elem(cache, last'.served)]
       /\ Tail(cache'.lrulist) = SelectSeq(cache.lrulist, LAMBDA it : it.keyrange # last'.served)

C10_EvictedLast ==
    (/\ prev.op = "Get" /\ prev.res = "hit"
     /\ last.op = "Add" /\ last.res = "new"
     /\ prev.served \notin cache.rangecache)
    => KeysOf(cache.lrulist) = <<last.key>>

C10_GetRefreshes == [][C10_StepBump]_vars /\ []C10_EvictedLast

C10_Witness ==
    /\ prev.op = "Get" /\ prev.res = "hit"
    /\ last.op = "Add" /\ last.res = "new" /\ Len(last.evicted) = 1
    /\ KeysOf(cache.lrulist) = <<last.key, prev.served>>

\* C11: Add(k, p1) followed by Add(k, p2) on a fresh cache leaves exactly one
\* entry for k, carrying p2, and BytesUsed() is what it is after Add(k, p2)
\* alone on a fresh cache of the same limit.
C11_Overwrite ==
    (/\ nops = 2
     /\ prev.op = "Add" /\ prev.res = "new"
     /\ last.op = "Add" /\ last.res = "update"
     /\ ~AddHangs(NewRangeCache(cache.nbyteLimit), last.key, last.value))
    => /\ Cardinality({i \in 1..Len(cache.lrulist) : cache.lrulist[i].keyrange = last.key}) = 1
       /\ cache.lrulist[Elem(cache, last.key)].value = last.value
       /\ BytesUsed(cache)
            = BytesUsed(Add(NewRangeCache(cache.nbyteLimit), last.key, last.value))

\* C12: every Add returns: none is left spinning in the eviction loop over
\* an empty list.
C12_AddTerminates == last.op = "Add" => last.res # "hang"

\* C13: a caller is never held up by the fetch of another keyrange: when
\* every other goroutine is outside GetRangeDupSup, blocked on a ready
\* channel, or inside the upstream fetch of a keyrange other than the
\* caller's, the caller's next step can be taken (a waiter's once its own
\* marker is closed), so it runs to its return with those fetches pending.
C13_Independent ==
    \A q \in Procs :
        (/\ pc[q] \notin {"done", "panicked", "hung"}
         /\ pc[q] = "idle" => \A r \in Procs : r < q => pc[r] # "idle"
         /\ pc[q] = "Wait" => dup[key[q]] = "closed"
         /\ \A r \in Procs \ {q} :
               \/ pc[r] \in {"idle", "done", "Wait"}
               \/ pc[r] = "Fetch" /\ key[r] # key[q])
        => ENABLED GetRangeDupSupStep(q)

C13_Witness ==
    \E p \in Procs : \E q \in Procs :
        /\ p < q
        /\ pc[p] = "Fetch" /\ role[p] = "fetcher" /\ fetches[key[p]] = 0
        /\ key[q] # key[p]
        /\ role[q] = "fetcher" /\ Returned(q)
        /\ ret[q] = [value |-> httpBody(key[q]), ok |-> TRUE]

\* C14: a waiter on a keyrange that is past its wait (about to read the
\* store, reading it, or returned) finds the one fetch for the keyrange
\* completed with a body and the fetcher past its Add of that body.
C14_WaitersAfterAdd ==
    \A p \in Procs :
        (role[p] = "waiter" /\ pc[p] \in {"GetLock", "Get", "done", "panicked"})
        => /\ fetches[key[p]] = 1
           /\ dup[key[p]] = "closed"
           /\ \E f \in Procs :
                 /\ role[f] = "fetcher" /\ key[f] = key[p]
                 /\ body[f] = httpBody(key[p])
                 /\ pc[f] \in {"GetLock", "Get", "done", "panicked"}

C14_Witness ==
    \E p \in Procs : \E f \in Procs :
        /\ role[p] = "waiter" /\ pc[p] = "Get"
        /\ role[f] = "fetcher" /\ key[f] = key[p] /\ pc[f] = "GetLock"
        /\ key[p] \in cache.rangecache

\* C15: a GetRange whose keyrange equals or lies inside a cached range is
\* answered from the store by its cs.get: the call returns a value there,
\* having fetched nothing and added no entry.
C15_StepFromStore ==
    \A p \in Procs :
        (/\ pc[p] = "RangeGet"
         /\ pc'[p] # "RangeGet"
         /\ \E kr \in cache.rangecache : Contains(kr, key[p]))
        => /\ pc'[p] = "done"
           /\ ret'[p].ok
           /\ fetches' = fetches
           /\ cache'.rangecache = cache.rangecache

C15_ServedFromStore == [][C15_StepFromStore]_vars

\* C16: when a caller's upstream fetch fails, on either path, the call ends
\* there with a failure result, having invoked the fetch once, and the
\* store's entries, recency order and bytes used are what they were.
C16_StepFailure ==
    \A p \in Procs :
        (/\ pc[p] \in {"Fetch", "RangeFetch"}
         /\ pc'[p] # pc[p]
         /\ body'[p] = NoValue)
        => /\ pc'[p] = "done"
           /\ ret'[p] = NoRet
           /\ fetches'[key[p]] = fetches[key[p]] + 1
           /\ cache' = cache

C16_FailureReturned == [][C16_StepFailure]_vars

\* C17: every close of a ready channel is done by the one goroutine that
\* created the marker, on a channel that is still open; it leaves the
\* channel closed and never panics as a second close would.
C17_StepClose ==
    \A p \in Procs :
        (pc[p] = "Close" /\ pc'[p] # "Close")
        => /\ role[p] = "fetcher"
           /\ \A q \in Procs \ {p} : key[q] = key[p] => role[q] # "fetcher"
           /\ dup[key[p]] = "open"
           /\ dup'[key[p]] = "closed"
           /\ pc'[p] = "GetLock"

C17_CloseOnce == [][C17_StepClose]_vars

C17_Witness ==
    \E k1 \in ReqKeys : \E k2 \in ReqKeys \ {k1} :
        /\ dup[k1] = "closed" /\ dup[k2] = "closed"
        /\ \E p \in Procs : key[p] = k1 /\ role[p] = "waiter" /\ Returned(p)
        /\ \E p \in Procs : key[p] = k2 /\ role[p] = "fetcher" /\ Returned(p)

\* C18: a goroutine holds cs.mu only while it checks or creates the marker
\* or is inside one cs.cache.Add or cs.cache.Get; it holds nothing while
\* it is inside the upstream fetch, blocked on a ready channel, waiting for
\* the lock, or after its return.
C18_LockHeldBriefly ==
    \A p \in Procs :
        /\ p \in mu => pc[p] \in {"Check", "Add", "hung", "Get"}
        /\ pc[p] \in {"idle", "Fetch", "Wait", "AddLock", "Close", "GetLock",
                      "done", "panicked"} => p \notin mu

C18_Witness ==
    \E p \in Procs : \E q \in Procs : \E r \in Procs :
        /\ pc[p] = "Fetch"
        /\ pc[q] = "Wait" /\ key[q] = key[p] /\ dup[key[q]] = "open"
        /\ pc[r] = "Check" /\ mu = {r}

\* The positions at which a goroutine reads or writes cs.dup or the cache.
InCritical(p) == pc[p] \in {"Check", "Add", "hung", "Get", "RangeGet", "RangeAdd"}

\* C19: cs.mu has at most one holder; a goroutine that is at a read or write
\* of the cache or of the marker map is that holder, so no two such
\* operations overlap; and every step that changes the cache or the set of
\* registered markers is a step of the holder.
C19_Exclusive ==
    /\ Cardinality(mu) <= 1
    /\ \A p \in Procs : InCritical(p) => mu = {p}
    /\ Cardinality({p \in Procs : InCritical(p)}) <= 1

C19_StepByHolder ==
    (\/ cache' # cache
     \/ \E kr \in ReqKeys : (dup[kr] = "absent") # (dup'[kr] = "absent"))
    => \E p \in Procs : mu = {p} /\ InCritical(p) /\ pc'[p] # pc[p]

C19_MutualExclusion == []C19_Exclusive /\ [][C19_StepByHolder]_vars

C19_Witness ==
    \E p \in Procs : \E q \in Procs : \E r \in Procs :
        /\ pc[p] = "Get" /\ mu = {p}
        /\ pc[q] = "AddLock"
        /\ pc[r] = "GetLock"

\* C20: a caller of GetRangeDupSup creates a marker and goes on to fetch its
\* keyrange only when no cached range equals or contains the keyrange.
C20_StepFetchOnMiss ==
    \A p \in Procs :
        (pc[p] = "Check" /\ pc'[p] = "Fetch")
        => ~\E kr \in cache.rangecache : Contains(kr, key[p])

C20_FetchOnlyOnMiss == [][C20_StepFetchOnMiss]_vars

\* C21: while the ready channel of a keyrange is closed (its fetch succeeded
\* and was added), the store holds the keyrange with the fetched body, and
\* every repeated request for it that has returned returned that body.
C21_CompletedAvailable ==
    \A kr \in ReqKeys :
        dup[kr] = "closed"
        => /\ kr \in cache.rangecache
           /\ cache.lrulist[Elem(cache, kr)].value = httpBody(kr)
           /\ \A p \in Procs :
                 (key[p] = kr /\ role[p] = "waiter" /\ Returned(p))
                 => ret[p] = [value |-> httpBody(kr), ok |-> TRUE]

\* C22: an entry of cs.dup is never removed, so the registered keyranges
\* only grow; a call that finds its keyrange registered takes the repeated
\* request branch and fetches nothing, and a registered keyrange is fetched
\* at most once.
C22_StepPermanent ==
    /\ \A kr \in ReqKeys : dup[kr] # "absent" => dup'[kr] # "absent"
    /\ \A p \in Procs :
          (pc[p] = "Check" /\ pc'[p] # "Check" /\ dup[key[p]] # "absent")
          => /\ role'[p] = "waiter"
             /\ pc'[p] = "Wait"
             /\ fetches' = fetches
    /\ \A p \in Procs :
          (role[p] = "waiter" /\ pc'[p] # pc[p]) => fetches' = fetches

C22_FetchedOnce == \A kr \in ReqKeys : dup[kr] # "absent" => fetches[kr] <= 1

C22_MarkersPermanent == [][C22_StepPermanent]_vars /\ []C22_FetchedOnce

C22_Witness ==
    \E p \in Procs : \E f \in Procs :
        /\ pc[p] = "Check" /\ mu = {p}
        /\ key[f] = key[p] /\ role[f] = "fetcher" /\ Returned(f)
        /\ dup[key[p]] = "closed"

\* C23: a fetcher whose fetch returned a body ends its call by returning
\* that body with ok = true, whatever the other goroutines do between its
\* cs.add and its cs.get.
C23_FetcherReturnsBody ==
    \A p \in Procs :
        (role[p] = "fetcher" /\ body[p] # NoValue)
        => /\ pc[p] # "panicked"
           /\ Returned(p) => ret[p] = [value |-> body[p], ok |-> TRUE]

\* C24: with every fetch succeeding and every body within the byte limit,
\* under fair scheduling every call that was made returns, and cs.mu is free
\* whenever no call is in progress.
C24_LockFreeAtRest ==
    (\A p \in Procs : pc[p] \in {"idle", "done"}) => mu = Unlocked

\* A call that panicked, or that spins inside Add, never returns.
C24_NoCallLost == \A p \in Procs : pc[p] \notin {"panicked", "hung"}

C24_DeadlockFree ==
    /\ \A p \in Procs : (pc[p] # "idle") ~> (pc[p] = "done")
    /\ []C24_NoCallLost
    /\ []C24_LockFreeAtRest

\* C25: after every operation nbytesUsed is the sum of the sizes Add charges
\* for the live entries, and it is never negative.
C25_ExactAccounting ==
    (last.res # "hang")
    => /\ BytesUsed(cache) = SumBytes(cache.lrulist)
       /\ BytesUsed(cache) >= 0

\* C26: the map and the list hold the same keyranges, no keyrange is carried
\* by two list elements, and the element a keyrange maps to carries it.
C26_IndexMatchesList ==
    /\ cache.rangecache = {cache.lrulist[i].keyrange : i \in 1..Len(cache.lrulist)}
    /\ \A i \in 1..Len(cache.lrulist) : \A j \in 1..Len(cache.lrulist) :
          cache.lrulist[i].keyrange = cache.lrulist[j].keyrange => i = j
    /\ \A kr \in cache.rangecache :
          /\ \E i \in 1..Len(cache.lrulist) : cache.lrulist[i].keyrange = kr
          /\ cache.lrulist[Elem(cache, kr)].keyrange = kr

C26_Witness ==
    /\ prev.op = "Add" /\ prev.res = "update"
    /\ last.op = "Add" /\ last.res = "new" /\ Len(last.evicted) >= 1
    /\ Len(cache.lrulist) >= 2

\* The entries of a list, without their order.
Items(l) == {l[i] : i \in 1..Len(l)}

\* C27: a Get leaves the stored keyranges, every stored payload, the bytes
\* used and the limit as they were; a hit only moves the serving entry to
\* the front, and a Get that does not hit changes nothing.
C27_StepGetFrame ==
    (nops' = nops + 1 /\ last'.op = "Get")
    => /\ cache'.rangecache = cache.rangecache
       /\ Items(cache'.lrulist) = Items(cache.lrulist)
       /\ Len(cache'.lrulist) = Len(cache.lrulist)
       /\ BytesUsed(cache') = BytesUsed(cache)
       /\ cache'.nbyteLimit = cache.nbyteLimit
       /\ last'.res = "hit" =>
             cache'.lrulist = MoveToFront(cache.lrulist, Elem(cache, last'.served))
       /\ last'.res # "hit" => cache' = cache

C27_ReadsKeepStore == [][C27_StepGetFrame]_vars

C27_Witness ==
    /\ prev.op = "Get" /\ prev.res = "miss"
    /\ last.op = "Get" /\ last.res = "hit" /\ last.served = last.key
    /\ Len(cache.lrulist) >= 2
    /\ cache.nbytesUsed # 0

\* C28: an Add on a keyrange the cache holds returns, removes no entry and
\* leaves the stored keyranges as they were, also when the new payload is
\* larger than the old one and than the free space; the other entries keep
\* their payloads and their order.
C28_StepUpdateFrame ==
    (nops' = nops + 1 /\ last'.op = "Add" /\ last'.key \in cache.rangecache)
    => /\ last'.res = "update"
       /\ last'.evicted = <<>>
       /\ cache'.rangecache = cache.rangecache
       /\ Head(cache'.lrulist) = [keyrange |-> last'.key, value |-> last'.value]
       /\ Tail(cache'.lrulist)
            = SelectSeq(cache.lrulist, LAMBDA it : it.keyrange # last'.key)

C28_UpdateNeverEvicts == [][C28_StepUpdateFrame]_vars

C28_Witness ==
    /\ last.op = "Add" /\ last.res = "update"
    /\ Len(cache.lrulist) >= 2
    /\ nbytesReq(last.value) > nbytesAvailable(cache)
    /\ prev.op = "Add" /\ nbytesReq(prev.value) < nbytesReq(last.value)

\* The bytes evict credits for the entries of a list.
RECURSIVE SumFreed(_)
SumFreed(l) == IF l = <<>> THEN 0 ELSE bFreed(Head(l).value) + SumFreed(Tail(l))

\* C29: an Add of a new keyrange that returns evicts nothing when
\* nbyteLimit - nbytesUsed is at least the payload's size; otherwise it
\* removes entries from the least recently used end, as few as bring
\* nbyteLimit - nbytesUsed up to the size; the new entry is then at the
\* front, ahead of the entries that stay.
C29_StepMinimal ==
    (nops' = nops + 1 /\ last'.op = "Add" /\ last'.res = "new")
    => LET req == nbytesReq(last'.value)
           L == Len(cache.lrulist)
           n == L + 1 - Len(cache'.lrulist)
           availAfter(k) == nbytesAvailable(cache) + SumFreed(SubSeq(cache.lrulist, L - k + 1, L))
       IN  /\ n \in 0..L
           /\ nbytesAvailable(cache) >= req => n = 0
           /\ \A k \in 0..(n - 1) : availAfter(k) < req
           /\ availAfter(n) >= req
           /\ last'.evicted = [i \in 1..n |-> cache.lrulist[L - i + 1].keyrange]
           /\ cache'.lrulist = <<[keyrange |-> last'.key, value |-> last'.value]>>
                                 \o SubSeq(cache.lrulist, 1, L - n)
           /\ cache'.rangecache
                = {cache.lrulist[i].keyrange : i \in 1..(L - n)} \cup {last'.key}

C29_EvictionMinimal == [][C29_StepMinimal]_vars

C29_Witness ==
    /\ last.op = "Add" /\ last.res = "new"
    /\ Len(last.evicted) = 2
    /\ Len(cache.lrulist) = 2
    /\ cache.nbytesUsed <= cache.nbyteLimit
    /\ cache.nbytesUsed >= 0

\* C30: when two GetRange calls for one keyrange are the only calls made on
\* a new server and both have returned a body, the cache holds exactly one
\* entry, for that keyrange with the fetched body, and nbytesUsed is that
\* body's size; in some interleavings both calls have fetched.
C30_OneEntryAfterBoth ==
    \A p \in Procs : \A q \in Procs \ {p} :
        (/\ role[p] = "direct" /\ role[q] = "direct"
         /\ key[p] = key[q]
         /\ Returned(p) /\ ret[p].ok
         /\ Returned(q) /\ ret[q].ok
         /\ \A r \in Procs \ {p, q} : pc[r] = "idle")
        => /\ cache.lrulist = <<[keyrange |-> key[p], value |-> httpBody(key[p])]>>
           /\ cache.rangecache = {key[p]}
           /\ BytesUsed(cache) = nbytesReq(httpBody(key[p]))
           /\ ret[p].value = httpBody(key[p])
           /\ ret[q].value = httpBody(key[p])
           /\ fetches[key[p]] \in {1, 2}

C30_Witness ==
    \E p \in Procs : \E q \in Procs \ {p} :
        /\ role[p] = "direct" /\ role[q] = "direct"
        /\ key[p] = key[q]
        /\ Returned(p) /\ ret[p].ok
        /\ Returned(q) /\ ret[q].ok
        /\ \A r \in Procs \ {p, q} : pc[r] = "idle"
        /\ fetches[key[p]] = 2
        /\ Len(cache.lrulist) = 1

\* C31: the cs.get that ends a GetRangeDupSup call returns the payload
\* stored under the call's own keyrange, and reports failure when the cache
\* holds no entry with that keyrange, whatever containing entries it holds.
C31_StepExactOnly ==
    \A p \in Procs :
        (pc[p] = "Get" /\ pc'[p] # "Get")
        => /\ pc'[p] = "done"
           /\ IF key[p] \in cache.rangecache
              THEN ret'[p] = [value |-> cache.lrulist[Elem(cache, key[p])].value,
                              ok |-> TRUE]
              ELSE ret'[p] = NoRet

C31_ExactKeyRead == [][C31_StepExactOnly]_vars

====
